---- MODULE Spec2Model ----
(***************************************************************************)
(* The OpenID Connect client of yew-oauth2 (src/agent/client/openid.rs)    *)
(* and the authentication context it produces (src/context.rs).           *)
(*                                                                         *)
(* Option<T> is modelled as a set with at most one element: None is {},    *)
(* Some(x) is {x}.  Result<T, E> is a record with a field ok.              *)
(***************************************************************************)
EXTENDS Integers, Sequences, FiniteSets, TLC

VARIABLES
    boot,      \* the from_config call: its position, inputs and result
    engines,   \* the OpenIdClient values the application holds
    logins,    \* the LoginContext values make_login_context returned
    grants,    \* the provider: authorization codes it issued (code = index)
    calls,     \* the exchange_code / exchange_refresh_token calls
    window,    \* the browser window: its location and the navigations asked of it
    context,   \* the OAuth2Context value the application holds
    reads      \* what the accessors of the context returned

vars == <<boot, engines, logins, grants, calls, window, context, reads>>

----------------------------------------------------------------------------
(* Bounds *)

MaxEngines == 2
MaxLogins == 2
MaxGrants == 1
MaxCalls == 1
MaxFollowUps == 1
MaxReads == 2

----------------------------------------------------------------------------
(* Option and Result *)

None == {}
Some(x) == {x}
Option(S) == {None} \cup {Some(x) : x \in S}
IsSome(o) == o # {}
Unwrap(o) == CHOOSE x \in o : TRUE

Ok(v) == [ok |-> TRUE, v |-> v]
Err(kind, msg) == [ok |-> FALSE, kind |-> kind, msg |-> msg]

----------------------------------------------------------------------------
(* Value domains *)

IssuerStrings == {"https://idp.example/realm", "https://idp2.example", "idp.example/realm"}
ClientIds == {"app1", "app2"}
EndSessionStrings == {"https://idp.example/logout", "https://idp.example", "/logout"}
DiscoveredEndSession == {"https://idp.example/oidc/end"}
RedirectUrls == {"https://app.example/cb", "https://app.example/other"}
ScopeLists == {<<"openid", "profile">>}
Verifiers == {"v1", "v2"}
Nonces == {"n1", "n2"}
CsrfTokens == {"s1"}
AccessTokens == {"AT1", "AT2"}
RefreshTokens == {"RT1", "RT2"}
Lifetimes == {3600}
Times == {1000}
Subjects == {"alice"}

----------------------------------------------------------------------------
(* URLs.  Url::parse either rejects a string or returns the normalised URL: *)
(* an absolute URL with an empty path gets the path "/", a string without   *)
(* a scheme is a relative URL without a base and is rejected.               *)

UrlParse(s) ==
    CASE s = "https://idp.example/realm" -> Ok("https://idp.example/realm")
      [] s = "https://idp2.example" -> Ok("https://idp2.example/")
      [] s = "https://idp.example/logout" -> Ok("https://idp.example/logout")
      [] s = "https://idp.example" -> Ok("https://idp.example/")
      [] OTHER -> Err("ParseError", "relative URL without a base")

\* IssuerUrl::new validates the string with Url::parse and keeps the string.
IssuerUrlNew(s) ==
    IF UrlParse(s).ok THEN Ok(s) ELSE Err("ParseError", UrlParse(s).msg)

----------------------------------------------------------------------------
(* from_config *)

Configs ==
    [issuer_url : IssuerStrings, client_id : ClientIds,
     end_session_url : Option(EndSessionStrings)]

\* What the discovery round trip can answer for an issuer.
MetadataFor(issuer) ==
    {[issuer |-> issuer,
      authorization_endpoint |-> "authorize",
      token_endpoint |-> "token",
      end_session_endpoint |-> e] : e \in Option(DiscoveredEndSession)}

DiscoveryOutcomes(issuer) ==
    {Err("DiscoveryError", "request failed")} \cup {Ok(m) : m \in MetadataFor(issuer)}

\* CoreClient::from_provider_metadata(metadata, client_id, None)
FromProviderMetadata(metadata, client_id) ==
    [client_id |-> client_id,
     issuer |-> metadata.issuer,
     auth_url |-> metadata.authorization_endpoint,
     token_url |-> metadata.token_endpoint,
     redirect_uri |-> None]

ResolveEndSessionUrl_ParseErrorFallsBack(configured, metadata) ==
    IF IsSome(configured) /\ UrlParse(Unwrap(configured)).ok
    THEN Ok(Some(UrlParse(Unwrap(configured)).v))
    ELSE Ok(metadata.end_session_endpoint)

\* config.end_session_url.map(|url| Url::parse(&url)).transpose()
\*     .map_err(..)?.or_else(|| metadata...end_session_endpoint.clone())
ResolveEndSessionUrl(configured, metadata) ==
    IF IsSome(configured) /\ ~UrlParse(Unwrap(configured)).ok
    THEN Err("Configuration", "Unable to parse end_session_url")
    ELSE IF IsSome(configured)
         THEN Ok(Some(UrlParse(Unwrap(configured)).v))
         ELSE Ok(metadata.end_session_endpoint)

FromConfigAfterDiscovery_OtherErrorKind(config, resp) ==
    IF ~resp.ok
    THEN Err("LoginResult", "Failed to discover client")
    ELSE LET end_session_url == ResolveEndSessionUrl(config.end_session_url, resp.v)
         IN  IF ~end_session_url.ok
             THEN end_session_url
             ELSE Ok([client |-> FromProviderMetadata(resp.v, config.client_id),
                      end_session_url |-> end_session_url.v])

FromConfigAfterDiscovery_EndSessionParsedFirst(config, resp) ==
    IF IsSome(config.end_session_url) /\ ~UrlParse(Unwrap(config.end_session_url)).ok
    THEN Err("Configuration", "Unable to parse end_session_url")
    ELSE IF ~resp.ok
         THEN Err("Configuration", "Failed to discover client")
         ELSE LET end_session_url == ResolveEndSessionUrl(config.end_session_url, resp.v)
              IN  IF ~end_session_url.ok
                  THEN end_session_url
                  ELSE Ok([client |-> FromProviderMetadata(resp.v, config.client_id),
                           end_session_url |-> end_session_url.v])

\* from_config after the discovery round trip answered with resp.
FromConfigAfterDiscovery(config, resp) ==
    IF ~resp.ok
    THEN Err("Configuration", "Failed to discover client")
    ELSE LET end_session_url == ResolveEndSessionUrl(config.end_session_url, resp.v)
         IN  IF ~end_session_url.ok
             THEN end_session_url
             ELSE Ok([client |-> FromProviderMetadata(resp.v, config.client_id),
                      end_session_url |-> end_session_url.v])

BootIdle(config) ==
    [pc |-> "idle", config |-> config, requests |-> <<>>, resp |-> None,
     result |-> None]

\* from_config up to its await: the issuer is parsed, then discovery is sent.
FromConfigCall ==
    /\ boot.pc = "idle"
    /\ LET issuer == IssuerUrlNew(boot.config.issuer_url)
       IN  IF ~issuer.ok
           THEN boot' = [boot EXCEPT !.pc = "done",
                            !.result = Some(Err("Configuration", "invalid issuer URL"))]
           ELSE boot' = [boot EXCEPT !.pc = "discover",
                            !.requests = Append(@, issuer.v)]
    /\ UNCHANGED <<window, context, reads, engines, logins, grants, calls>>

\* The network: the discovery request is answered.
DiscoveryRespond ==
    /\ boot.pc = "discover"
    /\ boot.resp = None
    /\ \E r \in DiscoveryOutcomes(boot.requests[1]) :
          boot' = [boot EXCEPT !.resp = Some(r)]
    /\ UNCHANGED <<window, context, reads, engines, logins, grants, calls>>

\* from_config from its await to its return.
FromConfigResume ==
    /\ boot.pc = "discover"
    /\ IsSome(boot.resp)
    /\ LET result == FromConfigAfterDiscovery(boot.config, Unwrap(boot.resp))
       IN  /\ boot' = [boot EXCEPT !.pc = "done", !.result = Some(result)]
           /\ engines' = IF result.ok THEN <<result.v>> ELSE engines
    /\ UNCHANGED <<window, context, reads, logins, grants, calls>>

\* The window of a page, nothing asked of it yet.
WindowAt(href) == [href |-> href, navigations |-> <<>>]

\* OAuth2Context::NotInitialized
NotInitialized == [tag |-> "NotInitialized"]

InitConfig ==
    /\ boot \in {BootIdle(c) : c \in Configs}
    /\ engines = <<>>
    /\ logins = <<>>
    /\ grants = <<>>
    /\ calls = <<>>
    /\ window = WindowAt(Ok("https://app.example/page"))
    /\ context = NotInitialized
    /\ reads = <<>>

NextConfig == FromConfigCall \/ DiscoveryRespond \/ FromConfigResume

SpecConfig == InitConfig /\ [][NextConfig]_vars

----------------------------------------------------------------------------
(* set_redirect_uri and make_login_context *)

\* CoreClient::set_redirect_uri: the client with its redirect URI replaced.
ClientSetRedirectUri(client, url) == [client EXCEPT !.redirect_uri = Some(url)]

\* set_redirect_uri(mut self, url) -> Self: the application derives an
\* engine bound to url from (a clone of) one it holds.
SetRedirectUri(e, url) ==
    /\ e \in 1..Len(engines)
    /\ Len(engines) < MaxEngines
    /\ engines' = Append(engines,
           [engines[e] EXCEPT !.client = ClientSetRedirectUri(@, url)])
    /\ UNCHANGED <<window, context, reads, boot, logins, grants, calls>>

\* The S256 transform of a PKCE verifier (PkceCodeChallenge::new_random_sha256
\* returns a verifier together with its challenge).
S256(verifier) ==
    CASE verifier = "v1" -> "c1"
      [] verifier = "v2" -> "c2"

\* client.authorize_url(AuthorizationCode, CsrfToken::new_random,
\* Nonce::new_random): the request carries the client's id and redirect URI,
\* the generated state and nonce and the scope "openid".
AuthorizeUrl(client, csrf, nonce) ==
    [auth_url |-> client.auth_url,
     response_type |-> "code",
     client_id |-> client.client_id,
     redirect_uri |-> client.redirect_uri,
     state |-> csrf,
     nonce |-> nonce,
     scope |-> <<"openid">>,
     code_challenge |-> None,
     code_challenge_method |-> None]

RECURSIVE AddScopes(_, _)
\* for scope in &config.scopes { req = req.add_scope(..) }
AddScopes(req, scopes) ==
    IF scopes = <<>>
    THEN req
    ELSE AddScopes([req EXCEPT !.scope = Append(@, Head(scopes))], Tail(scopes))

SetPkceChallenge(req, challenge) ==
    [req EXCEPT !.code_challenge = Some(challenge),
                !.code_challenge_method = Some("S256")]

LoginContextOf_SecondVerifier(engine, scopes, redirect_url, verifier, csrf, nonce) ==
    LET client == ClientSetRedirectUri(engine.client, redirect_url)
        pkce_challenge == S256(verifier)
        pkce_verifier == CHOOSE v \in Verifiers : v # verifier
        req == AddScopes(AuthorizeUrl(client, csrf, nonce), scopes)
        url == SetPkceChallenge(req, pkce_challenge)
    IN  Ok([url |-> url,
            csrf_token |-> url.state,
            state |-> [pkce_verifier |-> pkce_verifier, nonce |-> url.nonce]])

LoginContextOf_EmptyScopesRejected(engine, scopes, redirect_url, verifier, csrf, nonce) ==
    LET client == ClientSetRedirectUri(engine.client, redirect_url)
        pkce_challenge == S256(verifier)
        pkce_verifier == verifier
        req == AddScopes(AuthorizeUrl(client, csrf, nonce), scopes)
        url == SetPkceChallenge(req, pkce_challenge)
    IN  IF scopes = <<>>
        THEN Err("Configuration", "no scopes configured")
        ELSE Ok([url |-> url,
                 csrf_token |-> url.state,
                 state |-> [pkce_verifier |-> pkce_verifier, nonce |-> url.nonce]])

\* The value make_login_context returns for the random draws it made.
LoginContextOf(engine, scopes, redirect_url, verifier, csrf, nonce) ==
    LET client == ClientSetRedirectUri(engine.client, redirect_url)
        pkce_challenge == S256(verifier)
        pkce_verifier == verifier
        req == AddScopes(AuthorizeUrl(client, csrf, nonce), scopes)
        url == SetPkceChallenge(req, pkce_challenge)
    IN  Ok([url |-> url,
            csrf_token |-> url.state,
            state |-> [pkce_verifier |-> pkce_verifier, nonce |-> url.nonce]])

MakeLoginContext_RebindsEngine(e, scopes, redirect_url) ==
    /\ e \in 1..Len(engines)
    /\ Len(logins) < MaxLogins
    /\ \E verifier \in Verifiers, csrf \in CsrfTokens, nonce \in Nonces :
          logins' = Append(logins,
              LoginContextOf(engines[e], scopes, redirect_url, verifier, csrf, nonce))
    /\ engines' = [engines EXCEPT ![e].client = ClientSetRedirectUri(@, redirect_url)]
    /\ UNCHANGED <<window, context, reads, boot, grants, calls>>

\* make_login_context(&self, config, redirect_url): the engine is borrowed
\* immutably; the redirect URI is set on a clone of its client.
MakeLoginContext(e, scopes, redirect_url) ==
    /\ e \in 1..Len(engines)
    /\ Len(logins) < MaxLogins
    /\ \E verifier \in Verifiers, csrf \in CsrfTokens, nonce \in Nonces :
          logins' = Append(logins,
              LoginContextOf(engines[e], scopes, redirect_url, verifier, csrf, nonce))
    /\ UNCHANGED <<window, context, reads, boot, engines, grants, calls>>

----------------------------------------------------------------------------
(* The provider *)

\* The browser follows a login's authorization URL, the user signs in and the
\* provider issues an authorization code bound to the request's parameters.
Authorize(k) ==
    /\ k \in 1..Len(logins)
    /\ logins[k].ok
    /\ Len(grants) < MaxGrants
    /\ LET url == logins[k].v.url
       IN  grants' = Append(grants,
               [client_id |-> url.client_id,
                redirect_uri |-> url.redirect_uri,
                code_challenge |-> url.code_challenge,
                nonce |-> url.nonce,
                used |-> FALSE])
    /\ UNCHANGED <<window, context, reads, boot, engines, logins, calls>>

IdTokens ==
    [sub : Subjects, nonce : Option(Nonces), genuine : BOOLEAN]

TokenResponses ==
    [access_token : AccessTokens,
     refresh_token : Option(RefreshTokens),
     expires_in : Option(Lifetimes),
     id_token : Option(IdTokens)]

\* The token endpoint redeems a code once, for the client and redirect URI it
\* was issued to and for the verifier of its challenge.
Redeemable(req) ==
    /\ req.code \in 1..Len(grants)
    /\ ~grants[req.code].used
    /\ grants[req.code].client_id = req.client_id
    /\ grants[req.code].redirect_uri = req.redirect_uri
    /\ grants[req.code].code_challenge = Some(S256(req.code_verifier))

----------------------------------------------------------------------------
(* exchange_code and exchange_refresh_token *)

LoginStates == [pkce_verifier : Verifiers, nonce : Nonces]

\* IdTokenClaims: the payload of an ID token.
ClaimsOf(id_token) == [sub |-> id_token.sub, nonce |-> id_token.nonce]

ClaimsValues == {ClaimsOf(t) : t \in IdTokens}

\* id_token.into_claims(&verifier, &Nonce::new(nonce)): the claims when the
\* signature, issuer, audience and expiry hold and the nonce claim is the
\* expected nonce.
IntoClaims(id_token, nonce) ==
    IF ~id_token.genuine
    THEN Err("ClaimsVerification", "invalid token")
    ELSE IF id_token.nonce # Some(nonce)
         THEN Err("ClaimsVerification", "nonce mismatch")
         ELSE Ok(ClaimsOf(id_token))

\* expires(expires_in): the instant the token runs out, when a lifetime is given.
Expires(expires_in, now) ==
    IF IsSome(expires_in) THEN Some(now + Unwrap(expires_in)) ELSE None

Authenticated(access_token, refresh_token, expires, claims) ==
    [tag |-> "Authenticated",
     access_token |-> access_token,
     refresh_token |-> refresh_token,
     expires |-> expires,
     claims |-> claims]

\* The request exchange_code sends: client.exchange_code(code)
\*     .set_pkce_verifier(PkceCodeVerifier::new(state.pkce_verifier))
CodeRequest_NoRedirect(engine, code, state) ==
    [grant_type |-> "authorization_code",
     client_id |-> engine.client.client_id,
     redirect_uri |-> None,
     code |-> code,
     code_verifier |-> state.pkce_verifier,
     refresh_token |-> None]

\* self.client.exchange_code(AuthorizationCode::new(code))
\*     .set_pkce_verifier(pkce_verifier): the request carries the redirect URI
\* of the engine's own client.
CodeRequest(engine, code, state) ==
    [grant_type |-> "authorization_code",
     client_id |-> engine.client.client_id,
     redirect_uri |-> engine.client.redirect_uri,
     code |-> code,
     code_verifier |-> state.pkce_verifier,
     refresh_token |-> None]

\* The request exchange_refresh_token sends.
RefreshRequest(engine, refresh_token) ==
    [grant_type |-> "refresh_token",
     client_id |-> engine.client.client_id,
     redirect_uri |-> None,
     code |-> 0,
     code_verifier |-> "",
     refresh_token |-> Some(refresh_token)]

\* result.extra_fields().id_token().ok_or_else(..)
IdTokenOf(result) ==
    IF result.id_token = None
    THEN Err("LoginResult", "Server did not return an ID token")
    ELSE Ok(Unwrap(result.id_token))

VerifyIdToken_NonceIgnored(id_token, state) ==
    LET claims == IntoClaims(id_token,
                      IF IsSome(id_token.nonce) THEN Unwrap(id_token.nonce)
                                                ELSE state.nonce)
    IN  IF ~claims.ok
        THEN Err("LoginResult", "failed to verify ID token")
        ELSE claims

VerifyIdToken_VerifierAsNonce(id_token, state) ==
    LET claims == IntoClaims(id_token, state.pkce_verifier)
    IN  IF ~claims.ok
        THEN Err("LoginResult", "failed to verify ID token")
        ELSE claims

\* id_token.clone().into_claims(&self.client.id_token_verifier(),
\*     &Nonce::new(state.nonce)).map_err(..)
VerifyIdToken(id_token, state) ==
    LET claims == IntoClaims(id_token, state.nonce)
    IN  IF ~claims.ok
        THEN Err("LoginResult", "failed to verify ID token")
        ELSE claims

CodeExchangeSuccess_TokensSwapped(result, claims, now) ==
    Ok([context |-> Authenticated(result.access_token,
                        Some(result.access_token),
                        Expires(result.expires_in, now),
                        Some(claims)),
        session |-> claims])

\* The value exchange_code returns for a token response and verified claims.
CodeExchangeSuccess(result, claims, now) ==
    Ok([context |-> Authenticated(result.access_token,
                        result.refresh_token,
                        Expires(result.expires_in, now),
                        Some(claims)),
        session |-> claims])

ExchangeCodeResult_IdTokenOptional(state, resp, now) ==
    IF ~resp.ok
    THEN Err("LoginResult", "failed to exchange code")
    ELSE IF resp.v.id_token = None
         THEN Ok([context |-> Authenticated(resp.v.access_token,
                                  resp.v.refresh_token,
                                  Expires(resp.v.expires_in, now),
                                  None),
                  session |-> [sub |-> "", nonce |-> None]])
         ELSE LET claims == VerifyIdToken(Unwrap(resp.v.id_token), state)
              IN  IF ~claims.ok
                  THEN claims
                  ELSE CodeExchangeSuccess(resp.v, claims.v, now)

ExchangeCodeResult_Cached(state, resp, now) ==
    IF \E d \in 1..Len(calls) :
           /\ calls[d].op = "exchange_code"
           /\ calls[d].pc = "done"
           /\ calls[d].state = Some(state)
           /\ Unwrap(calls[d].result).ok
    THEN LET d == CHOOSE d \in 1..Len(calls) :
                      /\ calls[d].op = "exchange_code"
                      /\ calls[d].pc = "done"
                      /\ calls[d].state = Some(state)
                      /\ Unwrap(calls[d].result).ok
         IN  Unwrap(calls[d].result)
    ELSE IF ~resp.ok
         THEN Err("LoginResult", "failed to exchange code")
         ELSE LET result == resp.v
                  id_token == IdTokenOf(result)
              IN  IF ~id_token.ok
                  THEN id_token
                  ELSE LET claims == VerifyIdToken(id_token.v, state)
                       IN  IF ~claims.ok
                           THEN claims
                           ELSE CodeExchangeSuccess(result, claims.v, now)

ExchangeCodeResult_IdTokenCheckedFirst(state, resp, now) ==
    IF ~resp.ok \/ resp.v.id_token = None
    THEN Err("LoginResult", "Server did not return an ID token")
    ELSE LET result == resp.v
             claims == VerifyIdToken(Unwrap(result.id_token), state)
         IN  IF ~claims.ok
             THEN claims
             ELSE CodeExchangeSuccess(result, claims.v, now)

ExchangeCodeResult_UnverifiedContext(state, resp, now) ==
    IF ~resp.ok
    THEN Err("LoginResult", "failed to exchange code")
    ELSE LET result == resp.v
             id_token == IdTokenOf(result)
         IN  IF ~id_token.ok
             THEN id_token
             ELSE LET claims == VerifyIdToken(id_token.v, state)
                  IN  IF ~claims.ok
                      THEN Ok([context |-> Authenticated(result.access_token,
                                               result.refresh_token,
                                               Expires(result.expires_in, now),
                                               None),
                               session |-> ClaimsOf(id_token.v)])
                      ELSE CodeExchangeSuccess(result, claims.v, now)

\* exchange_code from the answer of the token endpoint to its return.
ExchangeCodeResult(state, resp, now) ==
    IF ~resp.ok
    THEN Err("LoginResult", "failed to exchange code")
    ELSE LET result == resp.v
             id_token == IdTokenOf(result)
         IN  IF ~id_token.ok
             THEN id_token
             ELSE LET claims == VerifyIdToken(id_token.v, state)
                  IN  IF ~claims.ok
                      THEN claims
                      ELSE CodeExchangeSuccess(result, claims.v, now)

ExchangeRefreshTokenResult_ClaimsDropped(refresh_token, session_state, resp, now) ==
    IF ~resp.ok
    THEN Err("LoginResult", "failed to exchange refresh token")
    ELSE LET result == resp.v
         IN  Ok([context |-> Authenticated(result.access_token,
                                 result.refresh_token,
                                 Expires(result.expires_in, now),
                                 None),
                 session |-> session_state])

ExchangeRefreshTokenResult_TokenRetained(refresh_token, session_state, resp, now) ==
    IF ~resp.ok
    THEN Err("LoginResult", "failed to exchange refresh token")
    ELSE LET result == resp.v
         IN  Ok([context |-> Authenticated(result.access_token,
                                 IF IsSome(result.refresh_token)
                                 THEN result.refresh_token
                                 ELSE Some(refresh_token),
                                 Expires(result.expires_in, now),
                                 Some(session_state)),
                 session |-> session_state])

\* exchange_refresh_token from the answer of the token endpoint to its return.
ExchangeRefreshTokenResult(refresh_token, session_state, resp, now) ==
    IF ~resp.ok
    THEN Err("LoginResult", "failed to exchange refresh token")
    ELSE LET result == resp.v
         IN  Ok([context |-> Authenticated(result.access_token,
                                 result.refresh_token,
                                 Expires(result.expires_in, now),
                                 Some(session_state)),
                 session |-> session_state])

\* exchange_code up to its await: the request is built and sent.
ExchangeCodeSend(engine, code, state) ==
    /\ calls' = Append(calls,
           [op |-> "exchange_code",
            engine |-> engine,
            code |-> code,
            state |-> Some(state),
            refresh_token |-> None,
            session_state |-> None,
            pc |-> "await",
            requests |-> <<CodeRequest(engine, code, state)>>,
            resp |-> None,
            result |-> None])
    /\ UNCHANGED <<window, context, reads, boot, engines, logins, grants>>

\* exchange_code called on an engine with a code and a login state.
ExchangeCodeCall(e, code, state) ==
    /\ e \in 1..Len(engines)
    /\ Len(calls) < MaxCalls
    /\ ExchangeCodeSend(engines[e], code, state)

\* exchange_code called once more with the code and login state of call c.
ExchangeCodeAgain(c) ==
    /\ c \in 1..Len(calls)
    /\ calls[c].op = "exchange_code"
    /\ Len(calls) < MaxCalls + MaxFollowUps
    /\ ExchangeCodeSend(calls[c].engine, calls[c].code, Unwrap(calls[c].state))

\* exchange_refresh_token up to its await.
ExchangeRefreshTokenSend(engine, refresh_token, session_state) ==
    /\ calls' = Append(calls,
           [op |-> "exchange_refresh_token",
            engine |-> engine,
            code |-> 0,
            state |-> None,
            refresh_token |-> Some(refresh_token),
            session_state |-> Some(session_state),
            pc |-> "await",
            requests |-> <<RefreshRequest(engine, refresh_token)>>,
            resp |-> None,
            result |-> None])
    /\ UNCHANGED <<window, context, reads, boot, engines, logins, grants>>

\* exchange_refresh_token called with a refresh token and a session state.
ExchangeRefreshTokenCall(e, refresh_token, session_state) ==
    /\ e \in 1..Len(engines)
    /\ Len(calls) < MaxCalls
    /\ ExchangeRefreshTokenSend(engines[e], refresh_token, session_state)

\* exchange_refresh_token called with what the successful call c returned:
\* the refresh token of its context and its session state.
ExchangeRefreshTokenFrom(c) ==
    /\ c \in 1..Len(calls)
    /\ calls[c].pc = "done"
    /\ Unwrap(calls[c].result).ok
    /\ IsSome(Unwrap(calls[c].result).v.context.refresh_token)
    /\ Len(calls) < MaxCalls + MaxFollowUps
    /\ ExchangeRefreshTokenSend(calls[c].engine,
           Unwrap(Unwrap(calls[c].result).v.context.refresh_token),
           Unwrap(calls[c].result).v.session)

\* The token endpoint answers the request of call c: the round trip fails,
\* or the provider refuses the grant, or it redeems it and answers with tokens.
TokenEndpoint(c) ==
    /\ c \in 1..Len(calls)
    /\ calls[c].pc = "await"
    /\ calls[c].resp = None
    /\ LET req == calls[c].requests[Len(calls[c].requests)]
       IN  \/ /\ calls' = [calls EXCEPT ![c].resp =
                               Some(Err("Request", "round trip failed"))]
              /\ UNCHANGED grants
           \/ /\ req.grant_type = "authorization_code" => ~Redeemable(req)
              /\ calls' = [calls EXCEPT ![c].resp =
                               Some(Err("ServerResponse", "invalid_grant"))]
              /\ UNCHANGED grants
           \/ /\ req.grant_type = "authorization_code" => Redeemable(req)
              /\ \E t \in TokenResponses :
                    calls' = [calls EXCEPT ![c].resp = Some(Ok(t))]
              /\ grants' = IF req.grant_type = "authorization_code"
                           THEN [grants EXCEPT ![req.code].used = TRUE]
                           ELSE grants
    /\ UNCHANGED <<window, context, reads, boot, engines, logins>>

ExchangeCodeResume_Retry(c, now) ==
    /\ c \in 1..Len(calls)
    /\ calls[c].op = "exchange_code"
    /\ calls[c].pc = "await"
    /\ IsSome(calls[c].resp)
    /\ calls' = IF ~Unwrap(calls[c].resp).ok /\ Len(calls[c].requests) = 1
                THEN [calls EXCEPT
                         ![c].requests = Append(@, @[1]),
                         ![c].resp = None]
                ELSE [calls EXCEPT
                         ![c].pc = "done",
                         ![c].result = Some(ExchangeCodeResult(Unwrap(calls[c].state),
                                                Unwrap(calls[c].resp), now))]
    /\ UNCHANGED <<window, context, reads, boot, engines, logins, grants>>

\* exchange_code from its await to its return.
ExchangeCodeResume(c, now) ==
    /\ c \in 1..Len(calls)
    /\ calls[c].op = "exchange_code"
    /\ calls[c].pc = "await"
    /\ IsSome(calls[c].resp)
    /\ calls' = [calls EXCEPT
           ![c].pc = "done",
           ![c].result = Some(ExchangeCodeResult(Unwrap(calls[c].state),
                                                 Unwrap(calls[c].resp), now))]
    /\ UNCHANGED <<window, context, reads, boot, engines, logins, grants>>

\* exchange_refresh_token from its await to its return.
ExchangeRefreshTokenResume(c, now) ==
    /\ c \in 1..Len(calls)
    /\ calls[c].op = "exchange_refresh_token"
    /\ calls[c].pc = "await"
    /\ IsSome(calls[c].resp)
    /\ calls' = [calls EXCEPT
           ![c].pc = "done",
           ![c].result = Some(ExchangeRefreshTokenResult(
                                  Unwrap(calls[c].refresh_token),
                                  Unwrap(calls[c].session_state),
                                  Unwrap(calls[c].resp), now))]
    /\ UNCHANGED <<window, context, reads, boot, engines, logins, grants>>

----------------------------------------------------------------------------
(* The login flow of an engine that from_config built *)

ScenarioConfig ==
    [issuer_url |-> "https://idp.example/realm", client_id |-> "app1",
     end_session_url |-> None]

BootDone(config, resp) ==
    [pc |-> "done", config |-> config, requests |-> <<config.issuer_url>>,
     resp |-> Some(resp),
     result |-> Some(FromConfigAfterDiscovery(config, resp))]

Init ==
    /\ \E m \in MetadataFor(ScenarioConfig.issuer_url) :
          /\ boot = BootDone(ScenarioConfig, Ok(m))
          /\ engines = <<Unwrap(boot.result).v>>
    /\ logins = <<>>
    /\ grants = <<>>
    /\ calls = <<>>
    /\ window = WindowAt(Ok("https://app.example/page"))
    /\ context = NotInitialized
    /\ reads = <<>>

Next ==
    \/ \E e \in 1..MaxEngines, url \in RedirectUrls : SetRedirectUri(e, url)
    \/ \E e \in 1..MaxEngines, scopes \in ScopeLists, url \in RedirectUrls :
          MakeLoginContext(e, scopes, url)
    \/ \E k \in 1..MaxLogins : Authorize(k)
    \/ \E e \in 1..MaxEngines, code \in 0..MaxGrants, state \in LoginStates :
          ExchangeCodeCall(e, code, state)
    \/ \E c \in 1..MaxCalls : TokenEndpoint(c)
    \/ \E c \in 1..MaxCalls, now \in Times : ExchangeCodeResume(c, now)

Spec == Init /\ [][Next]_vars

\* One login attempt whose code may be submitted again.
NextReplay ==
    \/ \E e \in 1..MaxEngines, url \in RedirectUrls : SetRedirectUri(e, url)
    \/ \E e \in 1..MaxEngines, scopes \in ScopeLists, url \in RedirectUrls :
          logins = <<>> /\ MakeLoginContext(e, scopes, url)
    \/ \E k \in 1..MaxLogins : Authorize(k)
    \/ \E e \in 1..MaxEngines, code \in 0..MaxGrants, state \in LoginStates :
          ExchangeCodeCall(e, code, state)
    \/ \E c \in 1..MaxCalls + MaxFollowUps : ExchangeCodeAgain(c)
    \/ \E c \in 1..MaxCalls + MaxFollowUps : TokenEndpoint(c)
    \/ \E c \in 1..MaxCalls + MaxFollowUps, now \in Times : ExchangeCodeResume(c, now)

SpecReplay == Init /\ [][NextReplay]_vars

\* Refreshing a session, and refreshing it again with what a refresh returned.
SessionStates ==
    {IntoClaims(t, n).v : <<t, n>> \in {x \in IdTokens \X Nonces : IntoClaims(x[1], x[2]).ok}}

NextRefresh ==
    \/ \E e \in 1..MaxEngines, rt \in RefreshTokens, s \in SessionStates :
          ExchangeRefreshTokenCall(e, rt, s)
    \/ \E c \in 1..MaxCalls + MaxFollowUps : ExchangeRefreshTokenFrom(c)
    \/ \E c \in 1..MaxCalls + MaxFollowUps : TokenEndpoint(c)
    \/ \E c \in 1..MaxCalls + MaxFollowUps, now \in Times :
          ExchangeRefreshTokenResume(c, now)

SpecRefresh == Init /\ [][NextRefresh]_vars

----------------------------------------------------------------------------
(* logout *)

\* What window().location().href() can return: the location, or an error.
Locations == {"https://app.example/page", "https://app.example/", "https://app.example/cb"}
HrefResults == {Ok(l) : l \in Locations} \cup {Err("JsValue", "href")}

\* A URL to navigate to: an end-session URL and the query pairs added to it
\* (url.query_pairs_mut().append_pair(name, value) adds the pair name=value).
TargetOf(url) == [url |-> url, query |-> <<>>]
AppendPair(target, name, value) ==
    [target EXCEPT !.query = Append(@, <<name, value>>)]

LogoutTarget_EndSessionUrlOnly(end_session_url, href) ==
    TargetOf(end_session_url)

\* The URL logout navigates to, for the engine's end-session URL.
LogoutTarget(end_session_url, href) ==
    IF href.ok
    THEN AppendPair(TargetOf(end_session_url), "redirect_uri", href.v)
    ELSE TargetOf(end_session_url)

\* logout(&self): window().location().set_href(..) when there is an
\* end-session URL, nothing otherwise.
Logout(e) ==
    /\ e \in 1..Len(engines)
    /\ Len(calls) < MaxCalls
    /\ calls' = Append(calls,
           [op |-> "logout",
            engine |-> engines[e],
            code |-> 0,
            state |-> None,
            refresh_token |-> None,
            session_state |-> None,
            pc |-> "done",
            requests |-> <<>>,
            resp |-> None,
            result |-> None])
    /\ IF IsSome(engines[e].end_session_url)
       THEN window' = [window EXCEPT !.navigations =
                Append(@, LogoutTarget(Unwrap(engines[e].end_session_url), window.href))]
       ELSE window' = window
    /\ UNCHANGED <<boot, engines, logins, grants, context, reads>>

\* Engines as from_config returns them, in a window at any location.
InitLogout ==
    /\ \E config \in Configs :
          /\ IssuerUrlNew(config.issuer_url).ok
          /\ \E r \in DiscoveryOutcomes(config.issuer_url) :
                /\ FromConfigAfterDiscovery(config, r).ok
                /\ boot = BootDone(config, r)
                /\ engines = <<FromConfigAfterDiscovery(config, r).v>>
    /\ logins = <<>>
    /\ grants = <<>>
    /\ calls = <<>>
    /\ window \in {WindowAt(h) : h \in HrefResults}
    /\ context = NotInitialized
    /\ reads = <<>>

NextLogout == \E e \in 1..MaxEngines : Logout(e)

SpecLogout == InitLogout /\ [][NextLogout]_vars

----------------------------------------------------------------------------
(* OAuth2Context and its accessors *)

Reasons == {"NewSession", "Expired", "Logout"}
FailureMessages == {"failed to exchange code", "Server did not return an ID token"}

\* OAuth2Context::NotAuthenticated { reason }
NotAuthenticated(reason) == [tag |-> "NotAuthenticated", reason |-> reason]

\* OAuth2Context::Failed(message)
Failed(message) == [tag |-> "Failed", message |-> message]

\* The values of the type OAuth2Context.
Contexts ==
    {NotInitialized}
    \cup {NotAuthenticated(r) : r \in Reasons}
    \cup {Authenticated(a, r, e, c) :
              a \in AccessTokens, r \in Option(RefreshTokens),
              e \in Option({t + l : t \in Times, l \in Lifetimes}),
              c \in Option(ClaimsValues)}
    \cup {Failed(m) : m \in FailureMessages}

CtxAccessToken_RefreshTokenPreferred(ctx) ==
    IF ctx.tag = "Authenticated"
    THEN IF IsSome(ctx.refresh_token) THEN ctx.refresh_token ELSE Some(ctx.access_token)
    ELSE None

\* OAuth2Context::access_token
CtxAccessToken(ctx) ==
    IF ctx.tag = "Authenticated" THEN Some(ctx.access_token) ELSE None

\* OAuth2Context::claims
CtxClaims(ctx) ==
    IF ctx.tag = "Authenticated" /\ IsSome(ctx.claims)
    THEN Some(Unwrap(ctx.claims))
    ELSE None

\* access_token() is called on the context.
ReadAccessToken ==
    /\ Len(reads) < MaxReads
    /\ reads' = Append(reads, [fn |-> "access_token", result |-> CtxAccessToken(context)])
    /\ UNCHANGED <<boot, engines, logins, grants, calls, window, context>>

\* claims() is called on the context.
ReadClaims ==
    /\ Len(reads) < MaxReads
    /\ reads' = Append(reads, [fn |-> "claims", result |-> CtxClaims(context)])
    /\ UNCHANGED <<boot, engines, logins, grants, calls, window, context>>

InitContext ==
    /\ \E m \in MetadataFor(ScenarioConfig.issuer_url) :
          /\ boot = BootDone(ScenarioConfig, Ok(m))
          /\ engines = <<Unwrap(boot.result).v>>
    /\ logins = <<>>
    /\ grants = <<>>
    /\ calls = <<>>
    /\ window = WindowAt(Ok("https://app.example/page"))
    /\ context \in Contexts
    /\ reads = <<>>

NextContext == ReadAccessToken \/ ReadClaims

SpecContext == InitContext /\ [][NextContext]_vars

----------------------------------------------------------------------------
(* Context values in the hands of the code around the engine *)

\* Code outside the engine evaluates a variant of the public enum
\* OAuth2Context with fields of its choice and holds the value.
ConstructContext(ctx) ==
    /\ ctx \in Contexts
    /\ context' = ctx
    /\ UNCHANGED <<boot, engines, logins, grants, calls, window, reads>>

\* The caller holds the context that the successful call c returned.
TakeContext(c) ==
    /\ c \in 1..Len(calls)
    /\ calls[c].pc = "done"
    /\ Unwrap(calls[c].result).ok
    /\ context' = Unwrap(calls[c].result).v.context
    /\ UNCHANGED <<boot, engines, logins, grants, calls, window, reads>>

\* The engine that from_config returned, bound by set_redirect_uri to the
\* application's redirect URL.
InitOwner ==
    /\ \E m \in MetadataFor(ScenarioConfig.issuer_url) :
          /\ boot = BootDone(ScenarioConfig, Ok(m))
          /\ engines = <<[Unwrap(boot.result).v EXCEPT
                              !.client = ClientSetRedirectUri(@, "https://app.example/cb")]>>
    /\ logins = <<>>
    /\ grants = <<>>
    /\ calls = <<>>
    /\ window = WindowAt(Ok("https://app.example/page"))
    /\ context = NotInitialized
    /\ reads = <<>>

NextOwner ==
    \/ \E e \in 1..MaxEngines, scopes \in ScopeLists, url \in RedirectUrls :
          logins = <<>> /\ MakeLoginContext(e, scopes, url)
    \/ \E k \in 1..MaxLogins : Authorize(k)
    \/ \E e \in 1..MaxEngines, code \in 0..MaxGrants, state \in LoginStates :
          ExchangeCodeCall(e, code, state)
    \/ \E c \in 1..MaxCalls : TokenEndpoint(c)
    \/ \E c \in 1..MaxCalls, now \in Times : ExchangeCodeResume(c, now)
    \/ \E c \in 1..MaxCalls : TakeContext(c)
    \/ \E ctx \in Contexts : ConstructContext(ctx)

SpecOwner == InitOwner /\ [][NextOwner]_vars

----------------------------------------------------------------------------
(* Calls abandoned at their await *)

\* The caller drops the future of call c while it is suspended at
\* request_async(..).await: the call never resumes and returns nothing.
Abandon(c) ==
    /\ c \in 1..Len(calls)
    /\ calls[c].pc = "await"
    /\ calls' = [calls EXCEPT ![c].pc = "abandoned"]
    /\ UNCHANGED <<window, context, reads, boot, engines, logins, grants>>

NextAsync ==
    \/ \E e \in 1..MaxEngines, url \in RedirectUrls : SetRedirectUri(e, url)
    \/ \E e \in 1..MaxEngines, scopes \in ScopeLists, url \in RedirectUrls :
          logins = <<>> /\ MakeLoginContext(e, scopes, url)
    \/ \E k \in 1..MaxLogins : Authorize(k)
    \/ \E e \in 1..MaxEngines, code \in 0..MaxGrants, state \in LoginStates :
          ExchangeCodeCall(e, code, state)
    \/ \E e \in 1..MaxEngines, rt \in RefreshTokens, s \in SessionStates :
          ExchangeRefreshTokenCall(e, rt, s)
    \/ \E c \in 1..MaxCalls : TokenEndpoint(c)
    \/ \E c \in 1..MaxCalls, now \in Times : ExchangeCodeResume(c, now)
    \/ \E c \in 1..MaxCalls, now \in Times : ExchangeRefreshTokenResume(c, now)
    \/ \E c \in 1..MaxCalls : Abandon(c)

SpecAsync == InitOwner /\ [][NextAsync]_vars

----------------------------------------------------------------------------
(* Login contexts for any configured scope list *)

\* Values of config.scopes, the empty list included.
LoginScopeLists ==
    {<<>>, <<"openid">>, <<"openid", "profile">>, <<"profile", "email">>}

NextLogin ==
    \/ \E e \in 1..MaxEngines, url \in RedirectUrls : SetRedirectUri(e, url)
    \/ \E e \in 1..MaxEngines, scopes \in LoginScopeLists, url \in RedirectUrls :
          MakeLoginContext(e, scopes, url)

SpecLogin == Init /\ [][NextLogin]_vars

----------------------------------------------------------------------------
(* A code submitted again with another login state *)

\* exchange_code called once more on the engine and with the code of call c,
\* with any login state.
ExchangeCodeRetry(c, state) ==
    /\ c \in 1..Len(calls)
    /\ calls[c].op = "exchange_code"
    /\ Len(calls) < MaxCalls + MaxFollowUps
    /\ ExchangeCodeSend(calls[c].engine, calls[c].code, state)

NextRedeem ==
    \/ \E e \in 1..MaxEngines, scopes \in ScopeLists, url \in RedirectUrls :
          logins = <<>> /\ MakeLoginContext(e, scopes, url)
    \/ \E k \in 1..MaxLogins : Authorize(k)
    \/ \E e \in 1..MaxEngines, code \in 0..MaxGrants, state \in LoginStates :
          ExchangeCodeCall(e, code, state)
    \/ \E c \in 1..MaxCalls + MaxFollowUps, state \in LoginStates :
          ExchangeCodeRetry(c, state)
    \/ \E c \in 1..MaxCalls + MaxFollowUps : TokenEndpoint(c)
    \/ \E c \in 1..MaxCalls + MaxFollowUps, now \in Times : ExchangeCodeResume(c, now)

SpecRedeem == InitOwner /\ [][NextRedeem]_vars

----------------------------------------------------------------------------
(* Properties *)

\* The exchange_code calls that returned.
CodeCallsDone ==
    {c \in 1..Len(calls) : calls[c].op = "exchange_code" /\ calls[c].pc = "done"}

\* The exchange_refresh_token calls that returned.
RefreshCallsDone ==
    {c \in 1..Len(calls) : calls[c].op = "exchange_refresh_token" /\ calls[c].pc = "done"}

ResultOf(c) == Unwrap(calls[c].result)
ResponseOf(c) == Unwrap(calls[c].resp)
IsLoginResultError(r) == ~r.ok /\ r.kind = "LoginResult"

\* C1: exchange_code returns an Authenticated context only when the token
\* response holds an ID token that verifies and whose nonce claim is the
\* nonce of the supplied login state; when the ID token of the response has
\* another nonce or does not verify, it returns a LoginResult error.
C1_NonceBoundIdToken ==
    \A c \in CodeCallsDone :
        LET r == ResultOf(c)
            resp == ResponseOf(c)
            nonce == Unwrap(calls[c].state).nonce
        IN  /\ r.ok =>
                /\ r.v.context.tag = "Authenticated"
                /\ resp.ok
                /\ IsSome(resp.v.id_token)
                /\ Unwrap(resp.v.id_token).genuine
                /\ Unwrap(resp.v.id_token).nonce = Some(nonce)
            /\ ( /\ resp.ok
                 /\ IsSome(resp.v.id_token)
                 /\ \/ ~Unwrap(resp.v.id_token).genuine
                    \/ Unwrap(resp.v.id_token).nonce # Some(nonce) )
               => IsLoginResultError(r)

\* A genuine ID token minted for another nonce was answered and refused.
C1_Witness ==
    \E c \in CodeCallsDone :
        /\ ResponseOf(c).ok
        /\ IsSome(ResponseOf(c).v.id_token)
        /\ Unwrap(ResponseOf(c).v.id_token).genuine
        /\ IsSome(Unwrap(ResponseOf(c).v.id_token).nonce)
        /\ Unwrap(ResponseOf(c).v.id_token).nonce # Some(Unwrap(calls[c].state).nonce)
        /\ IsLoginResultError(ResultOf(c))

\* C2: when the token endpoint accepts the code and the token response has no
\* ID token, exchange_code returns the LoginResult error that names the
\* missing ID token, whatever the other fields of the response are.
C2_MissingIdToken ==
    \A c \in CodeCallsDone :
        (ResponseOf(c).ok /\ ResponseOf(c).v.id_token = None)
        => /\ IsLoginResultError(ResultOf(c))
           /\ ResultOf(c).msg = "Server did not return an ID token"

\* A response with tokens and a lifetime but no ID token was refused.
C2_Witness ==
    \E c \in CodeCallsDone :
        /\ ResponseOf(c).ok
        /\ ResponseOf(c).v.id_token = None
        /\ IsSome(ResponseOf(c).v.refresh_token)
        /\ IsSome(ResponseOf(c).v.expires_in)
        /\ ~ResultOf(c).ok

\* C3: the verifier in a login state is the one whose challenge is in the
\* authorization URL of the same call; exchange_code submits the verifier of
\* the login state it is given; a call whose verifier does not match the
\* challenge of the attempt that produced the code ends in a LoginResult error.
C3_PkceBinding ==
    /\ \A k \in 1..Len(logins) :
          /\ logins[k].ok
          /\ logins[k].v.url.code_challenge = Some(S256(logins[k].v.state.pkce_verifier))
          /\ logins[k].v.url.code_challenge_method = Some("S256")
    /\ \A c \in 1..Len(calls) :
          calls[c].op = "exchange_code" =>
             /\ Len(calls[c].requests) = 1
             /\ calls[c].requests[1].code_verifier = Unwrap(calls[c].state).pkce_verifier
             /\ calls[c].requests[1].code = calls[c].code
    /\ \A c \in CodeCallsDone :
          ( /\ calls[c].code \in 1..Len(grants)
            /\ grants[calls[c].code].code_challenge
                   # Some(S256(Unwrap(calls[c].state).pkce_verifier)) )
          => IsLoginResultError(ResultOf(c))

\* A code was submitted from the engine it was issued through, with the
\* verifier of another attempt, and the call failed.
C3_Witness ==
    \E c \in CodeCallsDone :
        /\ calls[c].code \in 1..Len(grants)
        /\ grants[calls[c].code].redirect_uri = calls[c].engine.client.redirect_uri
        /\ grants[calls[c].code].code_challenge
               # Some(S256(Unwrap(calls[c].state).pkce_verifier))
        /\ \E k \in 1..Len(logins) : logins[k].v.state = Unwrap(calls[c].state)
        /\ IsLoginResultError(ResultOf(c))

\* C4: the nonce in the login state that make_login_context returns is the
\* nonce in the authorization URL it returns, and an exchange_code call given
\* that login state accepts a genuine ID token exactly when the token's nonce
\* claim is that nonce.
C4_NonceOfLoginState ==
    \A k \in 1..Len(logins) :
        /\ logins[k].v.state.nonce = logins[k].v.url.nonce
        /\ \A c \in CodeCallsDone :
              ( /\ Unwrap(calls[c].state) = logins[k].v.state
                /\ ResponseOf(c).ok
                /\ IsSome(ResponseOf(c).v.id_token)
                /\ Unwrap(ResponseOf(c).v.id_token).genuine )
              => ( ResultOf(c).ok
                   <=> Unwrap(ResponseOf(c).v.id_token).nonce
                           = Some(logins[k].v.url.nonce) )

\* The code of a login attempt was exchanged with the attempt's login state
\* and an ID token carrying the nonce of its authorization URL.
C4_Witness ==
    \E k \in 1..Len(logins), c \in CodeCallsDone :
        /\ Unwrap(calls[c].state) = logins[k].v.state
        /\ calls[c].code \in 1..Len(grants)
        /\ grants[calls[c].code].nonce = logins[k].v.url.nonce
        /\ ResultOf(c).ok
        /\ ResultOf(c).v.session.nonce = Some(logins[k].v.url.nonce)

\* C5: a successful exchange_code returns an Authenticated context with the
\* access token of the token response, its refresh token if it has one, an
\* expiry computed from its lifetime if it has one, and the claims of the
\* verified ID token; the session state returned with it is that claims value.
C5_AuthenticatedFromResponse ==
    \A c \in CodeCallsDone :
        ResultOf(c).ok =>
            LET ctx == ResultOf(c).v.context
                t == ResponseOf(c).v
            IN  /\ ctx.tag = "Authenticated"
                /\ ctx.access_token = t.access_token
                /\ ctx.refresh_token = t.refresh_token
                /\ IsSome(ctx.expires) <=> IsSome(t.expires_in)
                /\ IsSome(t.expires_in) =>
                      \E now \in Times : ctx.expires = Some(now + Unwrap(t.expires_in))
                /\ ctx.claims = Some(ClaimsOf(Unwrap(t.id_token)))
                /\ ResultOf(c).v.session = ClaimsOf(Unwrap(t.id_token))

\* A login succeeded on a response with a lifetime and without a refresh token.
C5_Witness ==
    \E c \in CodeCallsDone :
        /\ ResultOf(c).ok
        /\ ResponseOf(c).v.refresh_token = None
        /\ IsSome(ResponseOf(c).v.expires_in)
        /\ IsSome(ResultOf(c).v.context.expires)

\* Call d was made with what call c returned.
Continues(d, c) ==
    /\ c \in RefreshCallsDone
    /\ ResultOf(c).ok
    /\ calls[d].op = "exchange_refresh_token"
    /\ calls[d].session_state = Some(ResultOf(c).v.session)
    /\ calls[d].refresh_token = ResultOf(c).v.context.refresh_token

\* C6: a successful exchange_refresh_token returns an Authenticated context
\* whose claims are the session state it was given, and returns that session
\* state; a refresh made with what such a refresh returned carries them again.
C6_RefreshKeepsClaims ==
    /\ \A c \in RefreshCallsDone :
          ResultOf(c).ok =>
             /\ ResultOf(c).v.context.tag = "Authenticated"
             /\ ResultOf(c).v.context.claims = calls[c].session_state
             /\ Some(ResultOf(c).v.session) = calls[c].session_state
    /\ \A c \in RefreshCallsDone, d \in RefreshCallsDone :
          (Continues(d, c) /\ ResultOf(d).ok) =>
             /\ ResultOf(d).v.context.claims = calls[c].session_state
             /\ ResultOf(d).v.session = ResultOf(c).v.session

\* Two successful refreshes in a row, the second made with the first's result.
C6_Witness ==
    \E c \in RefreshCallsDone, d \in RefreshCallsDone :
        /\ c # d
        /\ Continues(d, c)
        /\ ResultOf(d).ok
        /\ ResultOf(d).v.context.access_token # ResultOf(c).v.context.access_token
        /\ ResultOf(d).v.context.claims = calls[c].session_state

\* C7: the refresh token of the context a successful exchange_refresh_token
\* returns is the refresh token of the refresh response; when the response
\* has none the context has none, and no refresh can be made from it.
C7_RefreshTokenFromResponse ==
    \A c \in RefreshCallsDone :
        ResultOf(c).ok =>
            /\ ResultOf(c).v.context.refresh_token = ResponseOf(c).v.refresh_token
            /\ ResponseOf(c).v.refresh_token = None =>
                  /\ ResultOf(c).v.context.refresh_token = None
                  /\ ~ENABLED ExchangeRefreshTokenFrom(c)
            /\ ( /\ IsSome(ResponseOf(c).v.refresh_token)
                 /\ Len(calls) < MaxCalls + MaxFollowUps )
               => ENABLED ExchangeRefreshTokenFrom(c)

\* A refresh succeeded on a response that holds no refresh token.
C7_Witness ==
    \E c \in RefreshCallsDone :
        /\ ResultOf(c).ok
        /\ ResponseOf(c).v.refresh_token = None
        /\ ResultOf(c).v.context.refresh_token = None
        /\ Len(calls) < MaxCalls + MaxFollowUps

\* C8: of two exchange_code calls with the same code and login state, when
\* one succeeded the other, once returned, returned the LoginResult error of
\* a refused exchange, after sending its own single request.
C8_CodeIsSingleUse ==
    \A c \in CodeCallsDone, d \in CodeCallsDone :
        ( /\ c # d
          /\ calls[c].code = calls[d].code
          /\ calls[c].state = calls[d].state
          /\ ResultOf(c).ok )
        => /\ IsLoginResultError(ResultOf(d))
           /\ ResultOf(d).msg = "failed to exchange code"
           /\ Len(calls[d].requests) = 1
           /\ ~ResponseOf(d).ok

\* The same code and login state were submitted twice, from the same engine:
\* the first call succeeded and the second failed.
C8_Witness ==
    \E c \in CodeCallsDone, d \in CodeCallsDone :
        /\ c < d
        /\ calls[c].code = calls[d].code
        /\ calls[c].state = calls[d].state
        /\ calls[c].engine = calls[d].engine
        /\ ResultOf(c).ok
        /\ IsLoginResultError(ResultOf(d))

BootResult == Unwrap(boot.result)
Discovered == boot.pc = "done" /\ IsSome(boot.resp) /\ Unwrap(boot.resp).ok
Metadata == Unwrap(boot.resp).v

\* C9: from_config takes the end-session URL from the configuration when it
\* has one that parses, also when discovery reports one; without a configured
\* value it takes the discovered endpoint, or none when there is none; a
\* configured value that does not parse is a Configuration error and is not
\* replaced by the discovered endpoint; a missing value is no error.
C9_EndSessionUrl ==
    Discovered =>
        LET configured == boot.config.end_session_url
        IN  /\ (IsSome(configured) /\ UrlParse(Unwrap(configured)).ok) =>
                  /\ BootResult.ok
                  /\ BootResult.v.end_session_url = Some(UrlParse(Unwrap(configured)).v)
            /\ configured = None =>
                  /\ BootResult.ok
                  /\ BootResult.v.end_session_url = Metadata.end_session_endpoint
            /\ (IsSome(configured) /\ ~UrlParse(Unwrap(configured)).ok) =>
                  /\ ~BootResult.ok
                  /\ BootResult.kind = "Configuration"
                  /\ engines = <<>>

\* A configured end-session URL was used although discovery reported another.
C9_Witness ==
    /\ Discovered
    /\ IsSome(boot.config.end_session_url)
    /\ IsSome(Metadata.end_session_endpoint)
    /\ BootResult.ok
    /\ BootResult.v.end_session_url # Metadata.end_session_endpoint
    /\ BootResult.v.end_session_url = Some(UrlParse(Unwrap(boot.config.end_session_url)).v)

\* C10: from_config returns an engine whose client is built from the
\* discovered metadata and whose end-session URL is the resolved one, or a
\* Configuration error and no engine; a malformed issuer URL, a failed
\* discovery and an unparseable configured end-session URL each give the
\* error; there is no engine before from_config returns.
C10_EngineOrConfigurationError ==
    /\ boot.pc # "done" => engines = <<>>
    /\ boot.pc = "done" =>
          /\ \/ /\ BootResult.ok
                /\ engines = <<BootResult.v>>
                /\ Discovered
                /\ BootResult.v.client.issuer = boot.config.issuer_url
                /\ BootResult.v.client.client_id = boot.config.client_id
                /\ BootResult.v.client.auth_url = Metadata.authorization_endpoint
                /\ BootResult.v.client.token_url = Metadata.token_endpoint
                /\ ResolveEndSessionUrl(boot.config.end_session_url, Metadata)
                       = Ok(BootResult.v.end_session_url)
             \/ /\ ~BootResult.ok
                /\ BootResult.kind = "Configuration"
                /\ engines = <<>>
          /\ ~UrlParse(boot.config.issuer_url).ok => ~BootResult.ok
          /\ (IsSome(boot.resp) /\ ~Unwrap(boot.resp).ok) => ~BootResult.ok
          /\ ( /\ IsSome(boot.config.end_session_url)
               /\ ~UrlParse(Unwrap(boot.config.end_session_url)).ok )
             => ~BootResult.ok

\* Discovery failed and from_config returned a Configuration error.
C10_Witness ==
    /\ boot.pc = "done"
    /\ IsSome(boot.resp)
    /\ ~Unwrap(boot.resp).ok
    /\ ~BootResult.ok
    /\ BootResult.kind = "Configuration"
    /\ engines = <<>>

\* The logout calls, and those made on an engine with an end-session URL.
IsLogout(call) == call.op = "logout"
IsNavigatingLogout(call) == call.op = "logout" /\ IsSome(call.engine.end_session_url)
LogoutCalls == SelectSeq(calls, IsLogout)
NavigatingLogouts == SelectSeq(calls, IsNavigatingLogout)

\* C11 as stated: every logout on an engine with an end-session URL navigates
\* to that URL with a redirect_uri parameter holding the current location.
C11_AlwaysRedirectUri ==
    /\ Len(window.navigations) = Len(NavigatingLogouts)
    /\ \A i \in 1..Len(window.navigations) :
          /\ window.navigations[i].url = Unwrap(NavigatingLogouts[i].engine.end_session_url)
          /\ Len(window.navigations[i].query) = 1
          /\ window.navigations[i].query[1][1] = "redirect_uri"

\* C11 (amended): logout navigates exactly when the engine has an end-session
\* URL; the target is that URL with redirect_uri set to the current location
\* when the location can be read, and that URL alone when it cannot; logout
\* leaves the engine as it was and returns no context.
C11_LogoutNavigation ==
    /\ Len(window.navigations) = Len(NavigatingLogouts)
    /\ \A i \in 1..Len(window.navigations) :
          /\ window.navigations[i].url = Unwrap(NavigatingLogouts[i].engine.end_session_url)
          /\ window.href.ok =>
                window.navigations[i].query = <<<<"redirect_uri", window.href.v>>>>
          /\ ~window.href.ok => window.navigations[i].query = <<>>
    /\ \A i \in 1..Len(LogoutCalls) :
          /\ \E e \in 1..Len(engines) : engines[e] = LogoutCalls[i].engine
          /\ LogoutCalls[i].result = None
    /\ LogoutCalls # <<>> =>
          /\ engines = <<Unwrap(boot.result).v>>
          /\ context = NotInitialized

\* A logout navigated with the current location as redirect_uri.
C11_Witness ==
    /\ Len(NavigatingLogouts) > 0
    /\ window.href.ok
    /\ Len(window.navigations) > 0
    /\ window.navigations[1].query = <<<<"redirect_uri", window.href.v>>>>

\* C12: access_token() returns the stored token exactly when the context is
\* Authenticated and nothing for every other context; claims() returns the
\* stored claims exactly when the context is Authenticated with claims, and
\* nothing otherwise.
C12_Accessors ==
    \A i \in 1..Len(reads) :
        /\ reads[i].fn = "access_token" =>
              /\ context.tag = "Authenticated" => reads[i].result = Some(context.access_token)
              /\ context.tag # "Authenticated" => reads[i].result = None
        /\ reads[i].fn = "claims" =>
              /\ (context.tag = "Authenticated" /\ context.claims # None) =>
                    reads[i].result = context.claims
              /\ (context.tag = "Authenticated" /\ context.claims = None) =>
                    reads[i].result = None
              /\ context.tag # "Authenticated" => reads[i].result = None

\* Both accessors were read on an Authenticated context that holds a refresh
\* token and claims.
C12_Witness ==
    /\ context.tag = "Authenticated"
    /\ IsSome(context.refresh_token)
    /\ IsSome(context.claims)
    /\ \E i \in 1..Len(reads) : reads[i].fn = "access_token" /\ IsSome(reads[i].result)
    /\ \E i \in 1..Len(reads) : reads[i].fn = "claims" /\ IsSome(reads[i].result)

\* C13: a make_login_context call leaves every engine, and so the engine's own
\* redirect URI, as it was, whatever redirect URL it is given; a
\* set_redirect_uri call yields one more engine, bound to the new redirect URI
\* and otherwise equal to the engine it was derived from, and changes no engine
\* that existed before.
C13_RedirectFrame ==
    [][/\ logins' # logins => engines' = engines
       /\ engines' # engines =>
             /\ Len(engines') = Len(engines) + 1
             /\ \A i \in 1..Len(engines) : engines'[i] = engines[i]
             /\ \E i \in 1..Len(engines), url \in RedirectUrls :
                   /\ engines'[Len(engines')].client.redirect_uri = Some(url)
                   /\ engines'[Len(engines')] =
                          [engines[i] EXCEPT !.client.redirect_uri = Some(url)]]_vars

\* An engine derived by set_redirect_uri stands next to its base, and a login
\* context was made for a redirect URL that neither engine is bound to.
C13_Witness ==
    /\ Len(engines) = 2
    /\ engines[1].client.redirect_uri = None
    /\ IsSome(engines[2].client.redirect_uri)
    /\ \E k \in 1..Len(logins) :
          /\ logins[k].ok
          /\ \A e \in 1..Len(engines) :
                logins[k].v.url.redirect_uri # engines[e].client.redirect_uri

\* C14: every Authenticated context that exists was returned by a successful
\* exchange_code or exchange_refresh_token call, and the claims it holds are
\* the claims of an ID token that passed verification against the login nonce.
C14_AuthenticatedOnlyFromExchange ==
    context.tag = "Authenticated" =>
        \E c \in 1..Len(calls) :
            /\ calls[c].pc = "done"
            /\ Unwrap(calls[c].result).ok
            /\ Unwrap(calls[c].result).v.context = context
            /\ calls[c].op = "exchange_code" =>
                  LET id_token == Unwrap(calls[c].resp).v.id_token
                  IN  /\ IsSome(id_token)
                      /\ IntoClaims(Unwrap(id_token), Unwrap(calls[c].state).nonce).ok
                      /\ context.claims =
                             Some(IntoClaims(Unwrap(id_token), Unwrap(calls[c].state).nonce).v)

IsExchange(call) == call.op \in {"exchange_code", "exchange_refresh_token"}

\* The call failed at one of its steps: the token request, the missing ID
\* token or the verification of the ID token.
FailsAtSomeStep(call) ==
    /\ IsSome(call.resp)
    /\ \/ ~Unwrap(call.resp).ok
       \/ /\ call.op = "exchange_code"
          /\ \/ Unwrap(call.resp).v.id_token = None
             \/ ~IntoClaims(Unwrap(Unwrap(call.resp).v.id_token),
                            Unwrap(call.state).nonce).ok

NoPartialContext ==
    \A c \in 1..Len(calls) :
        IsExchange(calls[c]) =>
            /\ calls[c].pc # "done" => calls[c].result = None
            /\ calls[c].pc = "done" =>
                  LET r == Unwrap(calls[c].result)
                  IN  /\ FailsAtSomeStep(calls[c]) => ~r.ok
                      /\ ~r.ok => "v" \notin DOMAIN r
                      /\ r.ok =>
                            /\ ~FailsAtSomeStep(calls[c])
                            /\ r.v.context.tag = "Authenticated"
                            /\ r.v.context.access_token = Unwrap(calls[c].resp).v.access_token
                            /\ IsSome(r.v.context.claims)

\* C15: a call of exchange_code or exchange_refresh_token that is in flight or
\* was abandoned has produced no context; a call that failed at any step
\* returns an error that holds no context; a context is returned only by a call
\* none of whose steps failed, and it is a complete Authenticated value; and no
\* step of a call, abandoning it included, changes any engine, whatever other
\* engine operations run in between.
C15_NoPartialState ==
    [][/\ NoPartialContext'
       /\ calls' # calls =>
             /\ engines' = engines
             /\ \A c \in 1..Len(calls) : calls'[c].engine = calls[c].engine]_vars

\* A call was abandoned after the provider had answered with tokens, on an
\* engine from which another engine has been derived.
C15_Witness ==
    /\ Len(engines) = 2
    /\ \E c \in 1..Len(calls) :
          /\ IsExchange(calls[c])
          /\ calls[c].pc = "abandoned"
          /\ IsSome(calls[c].resp)
          /\ Unwrap(calls[c].resp).ok
          /\ calls[c].result = None

\* C16: every exchange_code and exchange_refresh_token call sends exactly one
\* request to the token endpoint, and a call whose request failed returns a
\* LoginResult error.
C16_NeverRetries ==
    \A c \in 1..Len(calls) :
        IsExchange(calls[c]) =>
            /\ Len(calls[c].requests) = 1
            /\ (IsSome(calls[c].resp) /\ ~Unwrap(calls[c].resp).ok /\ calls[c].pc = "done") =>
                  /\ ~Unwrap(calls[c].result).ok
                  /\ Unwrap(calls[c].result).kind = "LoginResult"

\* A call whose only request the token endpoint failed has returned.
C16_Witness ==
    \E c \in 1..Len(calls) :
        /\ calls[c].op = "exchange_code"
        /\ calls[c].pc = "done"
        /\ ~Unwrap(calls[c].resp).ok
        /\ Len(calls[c].requests) = 1
        /\ ~Unwrap(calls[c].result).ok

\* All requests sent so far: the discovery request and the token requests.
RequestsSent == <<boot.requests, [c \in 1..Len(calls) |-> calls[c].requests]>>

\* C17: every make_login_context call, for every scope list and redirect URL,
\* returns a success value holding the authorization URL, the CSRF token and
\* the login state, and sends no request.
C17_LoginContextAlwaysOk ==
    [][logins' # logins =>
          /\ Len(logins') = Len(logins) + 1
          /\ LET r == logins'[Len(logins')]
             IN  /\ r.ok
                 /\ DOMAIN r.v = {"url", "csrf_token", "state"}
                 /\ r.v.csrf_token = r.v.url.state
                 /\ r.v.state.nonce = r.v.url.nonce
          /\ RequestsSent' = RequestsSent
          /\ window' = window]_vars

\* Login contexts were made for an empty scope list and for a scope list
\* without "openid", for two different redirect URLs.
C17_Witness ==
    \E j, k \in 1..Len(logins) :
        /\ logins[j].ok /\ logins[k].ok
        /\ logins[j].v.url.scope = <<"openid">>
        /\ logins[k].v.url.scope = <<"openid", "profile", "email">>
        /\ logins[j].v.url.redirect_uri # logins[k].v.url.redirect_uri

\* The login attempt that issued the code of an exchange_code call made with
\* that attempt's login state.
AttemptOf(call) ==
    {k \in 1..Len(logins) :
        /\ logins[k].ok
        /\ call.code \in 1..Len(grants)
        /\ call.state = Some(logins[k].v.state)
        /\ grants[call.code].nonce = logins[k].v.url.nonce
        /\ grants[call.code].code_challenge = logins[k].v.url.code_challenge
        /\ grants[call.code].redirect_uri = logins[k].v.url.redirect_uri}

\* C18 as stated: whenever exchange_code is called with the code and login
\* state of a login attempt, the redirect URI of the request it sends equals
\* the redirect URI in that attempt's authorization URL.
C18_SameRedirectUri ==
    [][Len(calls') > Len(calls) =>
          LET call == calls'[Len(calls')]
          IN  \A k \in AttemptOf(call) :
                  call.requests[1].redirect_uri = logins[k].v.url.redirect_uri]_vars

\* C18 as amended: the request of an exchange_code call carries the redirect
\* URI of the engine the call was made on (none when that engine was never
\* bound), so it equals the redirect URI of the attempt's authorization URL
\* exactly when that engine is bound to the URL the attempt was made with.
C18_EngineRedirectUri ==
    [][Len(calls') > Len(calls) =>
          LET call == calls'[Len(calls')]
          IN  /\ \E e \in 1..Len(engines) : call.engine = engines[e]
              /\ call.requests[1].redirect_uri = call.engine.client.redirect_uri
              /\ \A k \in AttemptOf(call) :
                    call.requests[1].redirect_uri = logins[k].v.url.redirect_uri
                        <=> call.engine.client.redirect_uri = logins[k].v.url.redirect_uri]_vars

\* exchange_code was called for a login attempt on an engine bound to the
\* attempt's redirect URL, and the provider redeemed the code.
C18_Witness ==
    \E c \in 1..Len(calls) :
        /\ calls[c].op = "exchange_code"
        /\ AttemptOf(calls[c]) # {}
        /\ IsSome(calls[c].engine.client.redirect_uri)
        /\ calls[c].requests[1].redirect_uri = grants[calls[c].code].redirect_uri
        /\ IsSome(calls[c].resp)
        /\ Unwrap(calls[c].resp).ok

\* The call returned because the ID token was missing or failed verification.
FailedOnIdToken(c) ==
    /\ IsLoginResultError(ResultOf(c))
    /\ ResultOf(c).msg \in {"Server did not return an ID token", "failed to verify ID token"}

\* The login state that redeems the code (the PKCE verifier of its challenge)
\* and verifies its ID token (the nonce of its authorization request).
IsCorrectState(code, state) ==
    /\ code \in 1..Len(grants)
    /\ grants[code].code_challenge = Some(S256(state.pkce_verifier))
    /\ grants[code].nonce = state.nonce

\* C19: a call of exchange_code that fails on the ID token (missing, or not
\* verified) has sent its one request and the provider has redeemed the code
\* for it; every other exchange_code call with that code, the one made with
\* the correct login state included, fails with the LoginResult error
\* "failed to exchange code".
C19_RedeemedBeforeIdTokenCheck ==
    \A c \in CodeCallsDone :
        FailedOnIdToken(c) =>
            /\ Len(calls[c].requests) = 1
            /\ ResponseOf(c).ok
            /\ calls[c].code \in 1..Len(grants)
            /\ grants[calls[c].code].used
            /\ \A d \in CodeCallsDone :
                  (d # c /\ calls[d].code = calls[c].code) =>
                      /\ IsLoginResultError(ResultOf(d))
                      /\ ResultOf(d).msg = "failed to exchange code"
                      /\ ~ResponseOf(d).ok

\* A call failed on a nonce mismatch, and a later call with the same code and
\* the correct login state has failed too.
C19_Witness ==
    \E c \in CodeCallsDone, d \in CodeCallsDone :
        /\ c < d
        /\ calls[d].code = calls[c].code
        /\ FailedOnIdToken(c)
        /\ ResultOf(c).msg = "failed to verify ID token"
        /\ Unwrap(calls[c].state).nonce # grants[calls[c].code].nonce
        /\ IsCorrectState(calls[d].code, Unwrap(calls[d].state))
        /\ IsLoginResultError(ResultOf(d))

UnparseableEndSession ==
    /\ IsSome(boot.config.end_session_url)
    /\ ~UrlParse(Unwrap(boot.config.end_session_url)).ok

\* C20: from_config parses the issuer first, and a malformed issuer is a
\* Configuration error returned with no request sent; otherwise exactly one
\* discovery request is sent; a failed discovery is reported as such even when
\* the explicit end-session URL is unparseable; and an unparseable end-session
\* URL is reported only after a discovery round trip that succeeded.
C20_CheckOrder ==
    /\ ~IssuerUrlNew(boot.config.issuer_url).ok =>
          /\ boot.requests = <<>>
          /\ boot.resp = None
          /\ boot.pc = "done" =>
                BootResult = Err("Configuration", "invalid issuer URL")
    /\ boot.pc = "done" =>
          /\ IssuerUrlNew(boot.config.issuer_url).ok =>
                /\ Len(boot.requests) = 1
                /\ IsSome(boot.resp)
          /\ (IsSome(boot.resp) /\ ~Unwrap(boot.resp).ok) =>
                BootResult = Err("Configuration", "Failed to discover client")
          /\ (~BootResult.ok /\ BootResult.msg = "Unable to parse end_session_url") =>
                /\ Len(boot.requests) = 1
                /\ IsSome(boot.resp)
                /\ Unwrap(boot.resp).ok
                /\ UnparseableEndSession

\* Discovery failed for a configuration whose explicit end-session URL is
\* unparseable, and from_config has returned.
C20_Witness ==
    /\ boot.pc = "done"
    /\ UnparseableEndSession
    /\ IsSome(boot.resp)
    /\ ~Unwrap(boot.resp).ok
    /\ BootResult.msg = "Failed to discover client"

====
